---- MODULE Spec2Model ----
(***************************************************************************)
(* Model of homework.py: a bot that polls the homework-review API on a     *)
(* fixed interval and relays status changes to one Telegram chat.          *)
(*                                                                         *)
(* Python values are tagged records [t |-> type, v |-> payload]; a dict's  *)
(* payload is a function from its keys, so "key in dict" is membership in  *)
(* DOMAIN.  Exceptions are records [type, msg].  The Russian message       *)
(* literals of the source are transliterated to ASCII.                     *)
(***************************************************************************)
EXTENDS Integers, Sequences, FiniteSets, TLC

VARIABLES
    tokens,            \* the three environment variables read at import
    pc,                \* position of main
    timestamp,         \* main's cursor
    new_status_found,  \* main's flag
    now,               \* the wall clock, int(time.time())
    fetches,           \* number of HTTP requests issued so far
    last_cycle,        \* how the previous cycle ended
    quiet,             \* history: the successful empty cycles since the start or
                       \* the last fully notified list, and their debug entries
    prev,              \* history: where the for loop of the first cycle broke off
    from_date,         \* the cursor given to the current cycle's fetch
    net,               \* what the current cycle's request met
    response,          \* main's local
    homeworks,         \* main's local
    idx,               \* position of the for loop in homeworks
    error,             \* the exception raised in the current cycle
    log,               \* log entries of the current cycle
    sent               \* bot sends attempted in the current cycle

vars == <<tokens, pc, timestamp, new_status_found, now, fetches, last_cycle,
          quiet, prev, from_date, net, response, homeworks, idx, error, log, sent>>

(* ---------------------------- bounds -------------------------------- *)

\* number of poll cycles explored
MaxCycles == 3
\* longest homeworks list the API returns
MaxHw == 2

(* ------------------------ program constants ------------------------- *)

RETRY_PERIOD == 600
HTTP_OK == 200
\* value of int(time.time()) when main starts
StartTime == 1700000000

(* --------------------------- Python values -------------------------- *)

None == [t |-> "None"]
PyInt(n) == [t |-> "int", v |-> n]
PyStr(s) == [t |-> "str", v |-> s]
PyList(s) == [t |-> "list", v |-> s]
PyDict(f) == [t |-> "dict", v |-> f]
NotJson == [t |-> "notjson"]
Unbound == [t |-> "unbound"]

Exc(type, msg) == [type |-> type, msg |-> msg]
NoError == Exc("NoError", "")

\* class hierarchy of the exception types the program meets
Bases(type) ==
    CASE type = "KeyError" -> {"LookupError", "Exception"}
      [] type = "TypeError" -> {"Exception"}
      [] type = "ValueError" -> {"Exception"}
      [] type = "Exception" -> {}
      [] type = "JSONDecodeError" ->
            {"InvalidJSONError", "RequestException", "json.JSONDecodeError",
             "ValueError", "OSError", "Exception"}
      [] type = "ConnectionError" -> {"RequestException", "OSError", "Exception"}
      [] type = "ReadTimeout" -> {"Timeout", "RequestException", "OSError", "Exception"}
      [] type = "HTTPError" -> {"RequestException", "OSError", "Exception"}
      [] type = "ApiTelegramException" -> {"ApiException", "Exception"}
      [] type = "OSError" -> {"Exception"}
      [] type = "ApiHTTPException" -> {"ApiException", "Exception"}
      [] type = "KeyboardInterrupt" -> {"BaseException"}
      [] OTHER -> {}

IsInstance(e, cls) == e.type = cls \/ cls \in Bases(e.type)

\* str(error): KeyError shows the repr of its argument, the others the message
StrOfError(e) == IF e.type = "KeyError" THEN "'" \o e.msg \o "'" ELSE e.msg

\* obj[key] for a string key
GetItem(obj, key) ==
    CASE obj.t = "dict" ->
            IF key \in DOMAIN obj.v
            THEN [raised |-> NoError, value |-> obj.v[key]]
            ELSE [raised |-> Exc("KeyError", key), value |-> None]
      [] obj.t = "list" ->
            [raised |-> Exc("TypeError", "list indices must be integers or slices, not str"),
             value |-> None]
      [] obj.t = "str" ->
            [raised |-> Exc("TypeError", "string indices must be integers"), value |-> None]
      [] obj.t = "int" ->
            [raised |-> Exc("TypeError", "'int' object is not subscriptable"), value |-> None]
      [] OTHER ->
            [raised |-> Exc("TypeError", "'NoneType' object is not subscriptable"),
             value |-> None]

\* dict.get(key, default)
DictGet(d, key, default) == IF key \in DOMAIN d.v THEN d.v[key] ELSE default

LogEntry(level, text) == [level |-> level, text |-> text]

\* bool(value): None and the empty string, list and dict are falsy
Truthy(x) ==
    CASE x.t = "None" -> FALSE
      [] x.t = "str" -> x.v /= ""
      [] x.t = "list" -> x.v /= <<>>
      [] x.t = "dict" -> DOMAIN x.v /= {}
      [] x.t = "int" -> x.v /= 0
      [] OTHER -> TRUE

\* the text an f-string puts for {value}
Format(x) ==
    CASE x.t = "str" -> x.v
      [] x.t = "int" -> ToString(x.v)
      [] x.t = "None" -> "None"
      [] OTHER -> "<" \o x.t \o ">"

(* --------------------------- module globals ------------------------- *)

TokenNames == <<"PRACTICUM_TOKEN", "TELEGRAM_TOKEN", "TELEGRAM_CHAT_ID">>

\* the verdict table with the sentences of reviewing and rejected exchanged
HOMEWORK_VERDICTS_swapped ==
    [approved |-> "Rabota proverena: revyueru vsyo ponravilos. Ura!",
     reviewing |-> "Rabota proverena: u revyuera est zamechaniya.",
     rejected |-> "Rabota vzyata na proverku revyuerom."]

HOMEWORK_VERDICTS ==
    [approved |-> "Rabota proverena: revyueru vsyo ponravilos. Ura!",
     reviewing |-> "Rabota vzyata na proverku revyuerom.",
     rejected |-> "Rabota proverena: u revyuera est zamechaniya."]

(* ----------------------------- functions ---------------------------- *)

\* index of the first token whose value is falsy, 0 when there is none
FirstMissing(tk) ==
    IF \E k \in 1..Len(TokenNames) : ~Truthy(tk[TokenNames[k]])
    THEN CHOOSE k \in 1..Len(TokenNames) :
            /\ ~Truthy(tk[TokenNames[k]])
            /\ \A j \in 1..(k - 1) : Truthy(tk[TokenNames[j]])
    ELSE 0

\* check_tokens testing `value is None` in place of `not value`
check_tokens_is_none(tk) ==
    LET missing == {k \in 1..Len(TokenNames) : tk[TokenNames[k]] = None}
        k == CHOOSE j \in missing : \A i \in missing : j <= i
        text == "Otsutstvuet obyazatelnaya peremennaya okruzheniya: " \o TokenNames[k]
    IN IF missing = {}
       THEN [log |-> <<>>, raised |-> NoError]
       ELSE [log |-> <<LogEntry("critical", text)>>, raised |-> Exc("OSError", text)]

check_tokens(tk) ==
    LET k == FirstMissing(tk)
        text == "Otsutstvuet obyazatelnaya peremennaya okruzheniya: " \o TokenNames[k]
    IN IF k = 0
       THEN [log |-> <<>>, raised |-> NoError]
       ELSE [log |-> <<LogEntry("critical", text)>>, raised |-> Exc("OSError", text)]

\* send_message logging the ApiException and raising it again
send_message_reraises(outcome, message) ==
    IF outcome = NoError
    THEN [log |-> <<LogEntry("debug", "Bot otpravil soobshchenie: " \o message)>>,
          raised |-> NoError]
    ELSE IF IsInstance(outcome, "ApiException")
    THEN [log |-> <<LogEntry("error",
                    "Oshibka pri otpravke soobshcheniya: " \o StrOfError(outcome))>>,
          raised |-> outcome]
    ELSE [log |-> <<>>, raised |-> outcome]

\* bot.send_message(chat, message) ends as `outcome`: NoError or the exception it raises
send_message(outcome, message) ==
    IF outcome = NoError
    THEN [log |-> <<LogEntry("debug", "Bot otpravil soobshchenie: " \o message)>>,
          raised |-> NoError]
    ELSE IF IsInstance(outcome, "ApiException")
    THEN [log |-> <<LogEntry("error",
                    "Oshibka pri otpravke soobshcheniya: " \o StrOfError(outcome))>>,
          raised |-> NoError]
    ELSE [log |-> <<>>, raised |-> outcome]

\* response.raise_for_status()
raise_for_status(status) ==
    IF status >= 400 /\ status < 500
    THEN Exc("HTTPError", ToString(status) \o " Client Error")
    ELSE IF status >= 500 /\ status < 600
    THEN Exc("HTTPError", ToString(status) \o " Server Error")
    ELSE NoError

\* the try body of get_api_answer; `outcome` is what the network does with the request
ApiTryBody(outcome) ==
    IF outcome.k = "exc"
    THEN [log |-> <<>>, raised |-> outcome.e, value |-> None]
    ELSE IF raise_for_status(outcome.status) /= NoError
    THEN [log |-> <<>>, raised |-> raise_for_status(outcome.status), value |-> None]
    ELSE IF ~(outcome.status = HTTP_OK)
    THEN [log |-> <<LogEntry("error",
                    "Oshibka pri zaprose k API: " \o ToString(outcome.status))>>,
          raised |-> Exc("Exception", "Oshibka dostupa"), value |-> None]
    ELSE IF outcome.body = NotJson
    THEN [log |-> <<>>,
          raised |-> Exc("JSONDecodeError", "Expecting value: line 1 column 1 (char 0)"),
          value |-> None]
    ELSE [log |-> <<>>, raised |-> NoError, value |-> outcome.body]

\* the except clauses of get_api_answer, in the order written
ApiExcept(r) ==
    IF r.raised = NoError
    THEN r
    ELSE IF IsInstance(r.raised, "json.JSONDecodeError")
    THEN [r EXCEPT !.log = Append(@, LogEntry("error", "Otvet ot API ne yavlyaetsya JSON"))]
    ELSE IF IsInstance(r.raised, "RequestException")
    THEN [r EXCEPT
            !.log = Append(@, LogEntry("error",
                        "Oshibka pri zaprose k API: " \o StrOfError(r.raised))),
            \* 'Dopolnitelnaya informatsiya:' + e  is  str + exception
            !.raised = Exc("TypeError",
                        "can only concatenate str (not \"" \o r.raised.type \o "\") to str")]
    ELSE r

get_api_answer(ts, outcome) ==
    [params |-> [from_date |-> ts]] @@ ApiExcept(ApiTryBody(outcome))

\* check_response reading response.get('homeworks', []) in place of response['homeworks']
check_response_default(resp) ==
    LET hw == IF resp.t = "dict" THEN DictGet(resp, "homeworks", PyList(<<>>)) ELSE None
    IN IF ~(resp.t = "dict")
       THEN [log |-> <<>>, value |-> None,
             raised |-> Exc("TypeError", "Otvet API dolzhen byt slovaryom")]
       ELSE IF ~(hw.t = "list")
       THEN [log |-> <<>>, value |-> None,
             raised |-> Exc("TypeError",
                            "Po klyuchu \"homeworks\" dolzhno byt znachenie tipa list")]
       ELSE [log |-> <<>>, value |-> hw, raised |-> NoError]

check_response(resp) ==
    LET got == GetItem(resp, "homeworks")
        hw == got.value
    IN IF IsInstance(got.raised, "KeyError")
       THEN [log |-> <<>>, value |-> None,
             raised |-> Exc("KeyError", "V otvete API net klyucha \"homeworks\"")]
       ELSE IF IsInstance(got.raised, "TypeError")
       THEN [log |-> <<>>, value |-> None,
             raised |-> Exc("TypeError", "Otvet API dolzhen byt slovaryom")]
       ELSE IF ~(hw.t = "list")
       THEN [log |-> <<>>, value |-> None,
             raised |-> Exc("TypeError",
                            "Po klyuchu \"homeworks\" dolzhno byt znachenie tipa list")]
       ELSE IF DictGet(resp, "current_date", None) = None
       THEN [log |-> <<LogEntry("warning",
                        "Otvet API ne soderzhit klyucha \"current_date\"")>>,
             value |-> hw, raised |-> NoError]
       ELSE [log |-> <<>>, value |-> hw, raised |-> NoError]

\* str.lower() on the status spellings met here
Lower(str) ==
    CASE str = "Approved" -> "approved"
      [] str = "APPROVED" -> "approved"
      [] OTHER -> str

\* parse_status looking the status up case-insensitively
parse_status_lower(homework) ==
    LET n == GetItem(homework, "homework_name")
        s == GetItem(homework, "status")
        first == IF n.raised /= NoError THEN n.raised ELSE s.raised
    IN IF IsInstance(first, "KeyError")
       THEN [raised |-> Exc("KeyError", "V otvete API net klyucha \"" \o first.msg \o "\""),
             value |-> ""]
       ELSE IF first /= NoError
       THEN [raised |-> first, value |-> ""]
       ELSE IF ~(s.value.t = "str" /\ Lower(s.value.v) \in DOMAIN HOMEWORK_VERDICTS)
       THEN [raised |-> Exc("ValueError",
                            "Neizvestnyy status raboty: " \o Format(s.value)),
             value |-> ""]
       ELSE [raised |-> NoError,
             value |-> "Izmenilsya status proverki raboty \"" \o Format(n.value)
                       \o "\". " \o HOMEWORK_VERDICTS[Lower(s.value.v)]]

parse_status(homework) ==
    LET n == GetItem(homework, "homework_name")
        s == GetItem(homework, "status")
        first == IF n.raised /= NoError THEN n.raised ELSE s.raised
    IN IF IsInstance(first, "KeyError")
       THEN [raised |-> Exc("KeyError", "V otvete API net klyucha \"" \o first.msg \o "\""),
             value |-> ""]
       ELSE IF first /= NoError
       THEN [raised |-> first, value |-> ""]
       ELSE IF ~(s.value.t = "str" /\ s.value.v \in DOMAIN HOMEWORK_VERDICTS)
       THEN [raised |-> Exc("ValueError",
                            "Neizvestnyy status raboty: " \o Format(s.value)),
             value |-> ""]
       ELSE [raised |-> NoError,
             value |-> "Izmenilsya status proverki raboty \"" \o Format(n.value)
                       \o "\". " \o HOMEWORK_VERDICTS[s.value.v]]

(* ---------------------------- environment --------------------------- *)

\* requests.get raises `e`
NetExc(e) == [k |-> "exc", e |-> e, status |-> 0, body |-> NotJson]
\* requests.get returns a response with this status code and body
Http(status, body) == [k |-> "http", e |-> NoError, status |-> status, body |-> body]
Idle == [k |-> "idle", e |-> NoError, status |-> 0, body |-> NotJson]

NetworkErrors ==
    {Exc("ConnectionError", "Max retries exceeded: connection refused"),
     Exc("ReadTimeout", "Read timed out.")}

Hw(name, status) == PyDict([homework_name |-> name, status |-> status])

\* homework records the API returns: two well-formed ones (one with quote
\* characters in its name), one with a status outside the verdict table and
\* one without a name
HwPool ==
    {Hw(PyStr("proj1"), PyStr("approved")),
     Hw(PyStr("say \"hi\""), PyStr("rejected")),
     Hw(PyStr("proj3"), PyStr("Approved")),
     PyDict([status |-> PyStr("reviewing")])}

HwLists == UNION {[1..n -> HwPool] : n \in 0..MaxHw}

\* the current_date values of a response; Absent stands for no such key
Absent == [t |-> "absent"]
DateChoices == {Absent, None, PyStr("2024-01-01"), PyInt(-5), PyInt(1000)}

ApiDict(hw, date) ==
    IF date = Absent
    THEN PyDict([homeworks |-> hw])
    ELSE PyDict([homeworks |-> hw, current_date |-> date])

\* JSON bodies that are no mapping with a homeworks list
Malformed ==
    {PyList(<<>>), None, PyStr("error"), PyInt(7),
     PyDict([current_date |-> PyInt(1000)]),
     ApiDict(PyStr("none"), PyInt(1000)), ApiDict(PyInt(3), PyInt(1000)),
     ApiDict(None, Absent)}

WellFormed ==
    {ApiDict(PyList(l), PyInt(1000)) : l \in HwLists}
    \cup {ApiDict(PyList(l), d) : l \in {h \in HwLists : Len(h) <= 1 /\ \A i \in 1..Len(h) : parse_status(h[i]).raised = NoError}, d \in DateChoices}

NetOutcomes ==
    {NetExc(e) : e \in NetworkErrors}
    \cup {Http(s, NotJson) : s \in {204, 404, 500}}
    \cup {Http(HTTP_OK, b) : b \in {NotJson} \cup Malformed \cup WellFormed}

\* how bot.send_message can end: delivered, rejected by Telegram (an unknown
\* chat; a bad token is rejected with the same exception class), or a network
\* failure inside the HTTP client
BotOutcomes ==
    {NoError,
     Exc("ApiTelegramException", "Error code: 400. Description: Bad Request: chat not found"),
     Exc("ConnectionError", "Max retries exceeded: connection refused")}

TokenValues == {None, PyStr(""), PyStr("secret")}

(* ----------------------------- main --------------------------------- *)

Attempt(text, outcome, line) == [text |-> text, outcome |-> outcome, line |-> line]

\* line 139 without the default: timestamp = response.get('current_date')
NextTimestampNoDefault(resp, ts) == DictGet(resp, "current_date", None)

\* line 139: timestamp = response.get('current_date', timestamp)
NextTimestamp(resp, ts) == DictGet(resp, "current_date", ts)

\* the failure message naming the class of the error in place of its message
FailureMessageType(e) == "Sboy v rabote programmy: " \o e.type

\* line 141: message = f'Sboy v rabote programmy: {error}'
FailureMessage(e) == "Sboy v rabote programmy: " \o StrOfError(e)

\* main catching `except BaseException`
CaughtBaseException(e) == IsInstance(e, "Exception") \/ IsInstance(e, "BaseException")

\* main catching `except RequestException` only
CaughtRequestOnly(e) == IsInstance(e, "RequestException")

\* the exceptions the clause `except Exception` of main catches
Caught(e) == IsInstance(e, "Exception")

\* no successful empty cycle yet, no debug entry for one
NoQuiet == [seen |-> FALSE, logs |-> 0]

\* the previous cycle did not break off in its for loop
NoRecord == [net |-> Idle, k |-> 0, from |-> Unbound]

Init ==
    /\ tokens \in [{TokenNames[k] : k \in 1..Len(TokenNames)} -> TokenValues]
    /\ pc = "start"
    /\ timestamp = Unbound
    /\ new_status_found = FALSE
    /\ now = StartTime
    /\ fetches = 0
    /\ last_cycle = "none"
    /\ quiet = NoQuiet
    /\ prev = NoRecord
    /\ from_date = Unbound
    /\ net = Idle
    /\ response = None
    /\ homeworks = None
    /\ idx = 0
    /\ error = NoError
    /\ log = <<>>
    /\ sent = <<>>

\* lines 120-124: check_tokens, then the bot, the cursor and the flag
Start ==
    /\ pc = "start"
    /\ LET r == check_tokens(tokens)
       IN /\ log' = r.log
          /\ IF r.raised /= NoError
             THEN /\ pc' = "halted"
                  /\ error' = r.raised
                  /\ UNCHANGED <<timestamp, new_status_found>>
             ELSE /\ pc' = "fetch"
                  /\ timestamp' = PyInt(now)
                  /\ new_status_found' = FALSE
                  /\ UNCHANGED error
    /\ UNCHANGED <<tokens, now, fetches, last_cycle, quiet, prev, from_date, net, response, homeworks,
                   idx, sent>>

\* line 128: response = get_api_answer(timestamp)
GetApiAnswer ==
    /\ pc = "fetch"
    /\ fetches < MaxCycles
    /\ \E outcome \in NetOutcomes :
         LET r == get_api_answer(timestamp, outcome)
         IN /\ net' = outcome
            /\ from_date' = r.params.from_date
            /\ log' = r.log
            /\ IF r.raised /= NoError
               THEN /\ error' = r.raised
                    /\ pc' = IF Caught(r.raised) THEN "handler" ELSE "crashed"
                    /\ UNCHANGED response
               ELSE /\ response' = r.value
                    /\ pc' = "validate"
                    /\ UNCHANGED error
    /\ fetches' = fetches + 1
    /\ UNCHANGED <<tokens, timestamp, new_status_found, now, last_cycle, quiet, prev, homeworks, idx,
                   sent>>

\* line 129: homeworks = check_response(response)
CheckResponse ==
    /\ pc = "validate"
    /\ LET r == check_response(response)
       IN /\ log' = log \o r.log
          /\ IF r.raised /= NoError
             THEN /\ error' = r.raised
                  /\ pc' = IF Caught(r.raised) THEN "handler" ELSE "crashed"
                  /\ UNCHANGED <<homeworks, idx>>
             ELSE /\ homeworks' = r.value
                  /\ idx' = 1
                  /\ pc' = "notify"
                  /\ UNCHANGED error
    /\ UNCHANGED <<tokens, timestamp, new_status_found, now, fetches, last_cycle, quiet, prev, from_date, net,
                   response, sent>>

\* the for loop passing over a record that parse_status refuses
NotifyOneSkipsBad ==
    /\ pc = "notify"
    /\ idx <= Len(homeworks.v)
    /\ LET p == parse_status(homeworks.v[idx])
       IN IF p.raised /= NoError
          THEN /\ idx' = idx + 1
               /\ UNCHANGED <<error, pc, log, sent>>
          ELSE \E outcome \in BotOutcomes :
                 LET s == send_message(outcome, p.value)
                 IN /\ sent' = Append(sent, Attempt(p.value, outcome, 133))
                    /\ log' = log \o s.log
                    /\ IF s.raised /= NoError
                       THEN /\ error' = s.raised
                            /\ pc' = IF Caught(s.raised) THEN "handler" ELSE "crashed"
                            /\ UNCHANGED idx
                       ELSE /\ idx' = idx + 1
                            /\ UNCHANGED <<error, pc>>
    /\ UNCHANGED <<tokens, timestamp, new_status_found, now, fetches, last_cycle, quiet, prev, from_date, net,
                   response, homeworks>>

\* lines 131-133: one turn of the for loop: parse_status, then send_message
NotifyOne ==
    /\ pc = "notify"
    /\ idx <= Len(homeworks.v)
    /\ LET p == parse_status(homeworks.v[idx])
       IN IF p.raised /= NoError
          THEN /\ error' = p.raised
               /\ pc' = IF Caught(p.raised) THEN "handler" ELSE "crashed"
               /\ UNCHANGED <<idx, log, sent>>
          ELSE \E outcome \in BotOutcomes :
                 LET s == send_message(outcome, p.value)
                 IN /\ sent' = Append(sent, Attempt(p.value, outcome, 133))
                    /\ log' = log \o s.log
                    /\ IF s.raised /= NoError
                       THEN /\ error' = s.raised
                            /\ pc' = IF Caught(s.raised) THEN "handler" ELSE "crashed"
                            /\ UNCHANGED idx
                       ELSE /\ idx' = idx + 1
                            /\ UNCHANGED <<error, pc>>
    /\ UNCHANGED <<tokens, timestamp, new_status_found, now, fetches, last_cycle, quiet, prev, from_date, net,
                   response, homeworks>>

\* the end of the try body without line 134: the flag stays set after a
\* non-empty list
AdvanceKeepsFlag ==
    /\ pc = "notify"
    /\ idx > Len(homeworks.v)
    /\ IF Truthy(homeworks)
       THEN UNCHANGED <<log, new_status_found>>
       ELSE IF ~new_status_found
       THEN /\ log' = Append(log, LogEntry("debug", "Net novykh statusov dlya domashek."))
            /\ new_status_found' = TRUE
       ELSE UNCHANGED <<log, new_status_found>>
    /\ timestamp' = NextTimestamp(response, timestamp)
    /\ pc' = "sleep"
    /\ UNCHANGED <<tokens, now, fetches, last_cycle, quiet, prev, from_date, net, response, homeworks,
                   idx, error, sent>>

\* the end of the try body writing the debug entry for every empty list
AdvanceAlwaysLogs ==
    /\ pc = "notify"
    /\ idx > Len(homeworks.v)
    /\ IF Truthy(homeworks)
       THEN /\ new_status_found' = FALSE
            /\ UNCHANGED log
       ELSE /\ log' = Append(log, LogEntry("debug", "Net novykh statusov dlya domashek."))
            /\ new_status_found' = TRUE
    /\ timestamp' = NextTimestamp(response, timestamp)
    /\ pc' = "sleep"
    /\ UNCHANGED <<tokens, now, fetches, last_cycle, quiet, prev, from_date, net, response, homeworks,
                   idx, error, sent>>

\* lines 130, 134-139: after the for loop (or with an empty list) the flag,
\* the debug log and the cursor
Advance ==
    /\ pc = "notify"
    /\ idx > Len(homeworks.v)
    /\ IF Truthy(homeworks)
       THEN /\ new_status_found' = FALSE
            /\ UNCHANGED log
       ELSE IF ~new_status_found
       THEN /\ log' = Append(log, LogEntry("debug", "Net novykh statusov dlya domashek."))
            /\ new_status_found' = TRUE
       ELSE UNCHANGED <<log, new_status_found>>
    /\ timestamp' = NextTimestamp(response, timestamp)
    /\ pc' = "sleep"
    /\ UNCHANGED <<tokens, now, fetches, last_cycle, quiet, prev, from_date, net, response, homeworks,
                   idx, error, sent>>

\* the handler of main also resetting the cursor to the current time
HandlerResetsCursor ==
    /\ pc = "handler"
    /\ \E outcome \in BotOutcomes :
         LET message == FailureMessage(error)
             s == send_message(outcome, message)
         IN /\ log' = Append(log, LogEntry("error", message)) \o s.log
            /\ sent' = Append(sent, Attempt(message, outcome, 144))
            /\ pc' = IF s.raised = NoError \/ Caught(s.raised) THEN "sleep" ELSE "crashed"
    /\ timestamp' = PyInt(now)
    /\ UNCHANGED <<tokens, new_status_found, now, fetches, last_cycle, quiet, prev, from_date, net,
                   response, homeworks, idx, error>>

\* the handler of main going back to the top of the loop without the sleep
HandlerNoSleep ==
    /\ pc = "handler"
    /\ \E outcome \in BotOutcomes :
         LET message == FailureMessage(error)
             s == send_message(outcome, message)
         IN /\ log' = Append(log, LogEntry("error", message)) \o s.log
            /\ sent' = Append(sent, Attempt(message, outcome, 144))
            /\ pc' = IF s.raised = NoError \/ Caught(s.raised) THEN "fetch" ELSE "crashed"
    /\ UNCHANGED <<tokens, timestamp, new_status_found, now, fetches, last_cycle, quiet, prev, from_date, net,
                   response, homeworks, idx, error>>

\* lines 140-144: the failure is logged and reported; an error of the report
\* itself is suppressed
Handler ==
    /\ pc = "handler"
    /\ \E outcome \in BotOutcomes :
         LET message == FailureMessage(error)
             s == send_message(outcome, message)
         IN /\ log' = Append(log, LogEntry("error", message)) \o s.log
            /\ sent' = Append(sent, Attempt(message, outcome, 144))
            /\ pc' = IF s.raised = NoError \/ Caught(s.raised) THEN "sleep" ELSE "crashed"
    /\ UNCHANGED <<tokens, timestamp, new_status_found, now, fetches, last_cycle, quiet, prev, from_date, net,
                   response, homeworks, idx, error>>

\* how a cycle that reached its sleep ended
CycleResult ==
    IF error = NoError THEN "ok"
    ELSE IF sent[Len(sent)].outcome = NoError THEN "failed"
    ELSE "failed_unreported"

\* the entry of line 137
NothingNew == LogEntry("debug", "Net novykh statusov dlya domashek.")

\* the history of empty cycles after the current cycle: a failed cycle leaves
\* it, a fully notified list clears it, a successful empty cycle adds to it
QuietAfter ==
    IF error /= NoError THEN quiet
    ELSE IF homeworks.v /= <<>> THEN NoQuiet
    ELSE [seen |-> TRUE,
          logs |-> quiet.logs + Cardinality({j \in 1..Len(log) : log[j] = NothingNew})]

\* lines 145-146: time.sleep(RETRY_PERIOD), then the top of the loop.  The
\* cycle is over: its locals are dead and its record is closed, only how it
\* ended is kept.
Sleep ==
    /\ pc = "sleep"
    /\ now' = now + RETRY_PERIOD
    /\ pc' = "fetch"
    /\ last_cycle' = CycleResult
    /\ quiet' = QuietAfter
    /\ UNCHANGED prev
    /\ from_date' = Unbound
    /\ net' = Idle
    /\ response' = None
    /\ homeworks' = None
    /\ idx' = 0
    /\ error' = NoError
    /\ log' = <<>>
    /\ sent' = <<>>
    /\ UNCHANGED <<tokens, timestamp, new_status_found, fetches>>

Next ==
    \/ Start
    \/ GetApiAnswer
    \/ CheckResponse
    \/ NotifyOne
    \/ Advance
    \/ Handler
    \/ Sleep

Spec == Init /\ [][Next]_vars

\* the loop is sequential code: a step that can be taken is taken
FairSpec == Spec /\ WF_vars(Next)

(* ------------- the same answer after a cycle that broke off ----------- *)

\* line 128 in the first cycle and after a cycle whose for loop ran through
GetApiAnswerFirst ==
    /\ prev.k = 0
    /\ GetApiAnswer

\* line 128 after a cycle whose for loop broke off, the API answering as it
\* answered that cycle
GetApiAnswerAgain ==
    /\ pc = "fetch"
    /\ fetches < MaxCycles
    /\ prev.k > 0
    /\ \E outcome \in {prev.net} :
         LET r == get_api_answer(timestamp, outcome)
         IN /\ net' = outcome
            /\ from_date' = r.params.from_date
            /\ log' = r.log
            /\ IF r.raised /= NoError
               THEN /\ error' = r.raised
                    /\ pc' = IF Caught(r.raised) THEN "handler" ELSE "crashed"
                    /\ UNCHANGED response
               ELSE /\ response' = r.value
                    /\ pc' = "validate"
                    /\ UNCHANGED error
    /\ fetches' = fetches + 1
    /\ UNCHANGED <<tokens, timestamp, new_status_found, now, last_cycle, quiet, prev, homeworks, idx,
                   sent>>

\* lines 145-146, keeping of a cycle whose for loop broke off the answer of
\* the API, the position of the record and the cursor of the request
SleepRemember ==
    /\ pc = "sleep"
    /\ now' = now + RETRY_PERIOD
    /\ pc' = "fetch"
    /\ last_cycle' = CycleResult
    /\ quiet' = QuietAfter
    /\ prev' = IF error /= NoError /\ homeworks.t = "list"
               THEN [net |-> net, k |-> idx, from |-> from_date]
               ELSE NoRecord
    /\ from_date' = Unbound
    /\ net' = Idle
    /\ response' = None
    /\ homeworks' = None
    /\ idx' = 0
    /\ error' = NoError
    /\ log' = <<>>
    /\ sent' = <<>>
    /\ UNCHANGED <<tokens, timestamp, new_status_found, fetches>>

RepeatNext ==
    \/ Start
    \/ GetApiAnswerFirst
    \/ GetApiAnswerAgain
    \/ CheckResponse
    \/ NotifyOne
    \/ Advance
    \/ Handler
    \/ SleepRemember

RepeatSpec == Init /\ [][RepeatNext]_vars

(* ---------------------- process interruption ------------------------ *)

\* KeyboardInterrupt raised in main at its current position.  In the try body
\* (lines 128-139) the except clause of line 140 is tried and, when it does
\* not match, the exception unwinds through the finally clause; in the
\* handler (lines 141-144) it passes suppress(Exception) and unwinds through
\* the finally clause as well; in time.sleep of the finally clause, also
\* while unwinding, it leaves main.
Interrupt ==
    /\ pc \in {"fetch", "validate", "notify", "handler", "sleep", "unwinding"}
    /\ LET e == Exc("KeyboardInterrupt", "")
       IN /\ error' = e
          /\ pc' = IF pc \in {"fetch", "validate", "notify"}
                   THEN IF Caught(e) THEN "handler" ELSE "unwinding"
                   ELSE IF pc = "handler" THEN "unwinding"
                   ELSE "stopped"
    /\ UNCHANGED <<tokens, timestamp, new_status_found, now, fetches, last_cycle, quiet, prev,
                   from_date, net, response, homeworks, idx, log, sent>>

\* lines 145-146 with an exception in flight: time.sleep(RETRY_PERIOD) runs,
\* then the exception leaves main
FinallySleep ==
    /\ pc = "unwinding"
    /\ now' = now + RETRY_PERIOD
    /\ pc' = "stopped"
    /\ UNCHANGED <<tokens, timestamp, new_status_found, fetches, last_cycle, quiet, prev,
                   from_date, net, response, homeworks, idx, error, log, sent>>

IntNext ==
    \/ Next
    \/ Interrupt
    \/ FinallySleep

IntSpec == Init /\ [][IntNext]_vars

(* ------------------- parse_status on its own ------------------------ *)

\* a record with the given name and status; Absent leaves the key out
HwRecord(name, status) ==
    IF name = Absent /\ status = Absent THEN PyDict(<<>>)
    ELSE IF name = Absent THEN PyDict([status |-> status])
    ELSE IF status = Absent THEN PyDict([homework_name |-> name])
    ELSE Hw(name, status)

ParseNames ==
    {Absent, None, PyStr(""), PyStr("proj1"), PyStr("say \"hi\""), PyStr("\"")}

ParseStatuses ==
    {Absent, None, PyStr(""), PyStr("approved"), PyStr("reviewing"), PyStr("rejected"),
     PyStr("Approved"), PyStr("APPROVED"), PyStr("unknown")}

ParseRecords == {HwRecord(n, st) : n \in ParseNames, st \in ParseStatuses}

\* main in its first cycle, at the for loop, with a one-record list from the API
ParseInit ==
    /\ tokens = [k \in {TokenNames[j] : j \in 1..Len(TokenNames)} |-> PyStr("secret")]
    /\ pc = "notify"
    /\ timestamp = PyInt(StartTime)
    /\ new_status_found = FALSE
    /\ now = StartTime
    /\ fetches = 1
    /\ last_cycle = "none"
    /\ quiet = NoQuiet
    /\ prev = NoRecord
    /\ from_date = PyInt(StartTime)
    /\ \E rec \in ParseRecords :
         /\ response = ApiDict(PyList(<<rec>>), PyInt(1000))
         /\ net = Http(HTTP_OK, response)
         /\ homeworks = PyList(<<rec>>)
    /\ idx = 1
    /\ error = NoError
    /\ log = <<>>
    /\ sent = <<>>

ParseNext ==
    \/ NotifyOne
    \/ Advance
    \/ Handler

ParseSpec == ParseInit /\ [][ParseNext]_vars

(* ---------------------------- properties ---------------------------- *)

\* positions of main inside `while True`
InLoop == pc \in {"fetch", "validate", "notify", "handler", "sleep"}

\* the current cycle raised an error
CycleFailed == InLoop /\ error /= NoError

\* the current cycle ran to its sleep without raising
CycleSucceeded == pc = "sleep" /\ error = NoError

TokensMissing == \E k \in 1..Len(TokenNames) : ~Truthy(tokens[TokenNames[k]])

ErrorEntries(l) == {j \in 1..Len(l) : l[j].level = "error"}

\* what the request of the current cycle met
FetchKind(o) ==
    IF o.k = "exc" THEN "network"
    ELSE IF o.status /= HTTP_OK THEN "status"
    ELSE IF o.body = NotJson THEN "decode"
    ELSE "ok"

\* a record with a name and a status of the verdict table
KnownRecord(h) ==
    /\ h.t = "dict"
    /\ {"homework_name", "status"} \subseteq DOMAIN h.v
    /\ h.v.status.t = "str"
    /\ h.v.status.v \in {"approved", "reviewing", "rejected"}

\* check_response has run on the body fetched in the current cycle
Validated == net.k = "http" /\ FetchKind(net) = "ok" /\ pc /= "validate"

\* C1: after a cycle that raised (also when the failure report itself fails)
\* main stays in its loop, sleeps and issues the next fetch; no position
\* outside the loop is ever reached once the loop is entered.
C1_LoopNeverExits ==
    /\ [](fetches >= 1 => InLoop)
    /\ \A n \in 1..(MaxCycles - 1) : (CycleFailed /\ fetches = n) ~> (fetches = n + 1)

\* a cycle failed and its failure report failed too; main slept and has
\* issued the next fetch
C1_Witness ==
    /\ last_cycle = "failed_unreported"
    /\ now = StartTime + RETRY_PERIOD
    /\ fetches = 2
    /\ pc \in {"validate", "handler"}

\* C2: with any of the three tokens missing or empty main stops in
\* check_tokens: no HTTP request and no send is ever made.
C2_NoNetworkWithoutTokens ==
    TokensMissing =>
        /\ pc \in {"start", "halted"}
        /\ fetches = 0
        /\ net = Idle
        /\ sent = <<>>

C2_Witness ==
    /\ pc = "halted"
    /\ tokens["PRACTICUM_TOKEN"] = PyStr("secret")
    /\ tokens["TELEGRAM_TOKEN"] = PyStr("secret")
    /\ tokens["TELEGRAM_CHAT_ID"] = PyStr("")
    /\ error.type = "OSError"

\* C3: send_message never raises: whatever the bot send fails with, the
\* failure is logged at error severity and send_message returns normally.
C3_SendMessageNeverRaises ==
    \A i \in 1..Len(sent) :
        LET r == send_message(sent[i].outcome, sent[i].text)
        IN /\ r.raised = NoError
           /\ ~(pc = "handler" /\ i = Len(sent) /\ error = sent[i].outcome)
           /\ sent[i].outcome /= NoError => ErrorEntries(r.log) /= {}

\* C4: a cycle whose fetch met a connection failure: one error log entry, one
\* notification attempt whose text describes the connection failure, cursor
\* unchanged, and the loop goes on to its sleep.
C4_ConnectionFailureCycle ==
    (net.k = "exc" /\ net.e.type = "ConnectionError") =>
        /\ InLoop
        /\ pc = "sleep" =>
             /\ Cardinality(ErrorEntries(log)) = 1
             /\ Len(sent) = 1
             /\ sent[1].text = FailureMessage(net.e)
             /\ timestamp = from_date

\* C5: a non-success status, a network failure and a non-JSON body are three
\* error kinds: get_api_answer logs each with a message of its own and raises
\* for each an error of a type it raises for no other kind.
C5_ThreeErrorKinds ==
    (pc = "handler" /\ idx = 0 /\ FetchKind(net) /= "ok") =>
        /\ ErrorEntries(log) /= {}
        /\ \A o \in NetOutcomes :
             (FetchKind(o) \notin {"ok", FetchKind(net)}) =>
                 LET r == get_api_answer(from_date, o)
                 IN /\ r.raised.type /= error.type
                    /\ r.log /= log

\* C6: a cycle whose fetch succeeded with a non-empty list of well-formed
\* records and a current_date: one notification attempt per record, in the
\* order received, and the cursor ends as the response's current_date.
C6_OneNotificationPerRecord ==
    (/\ pc = "sleep"
     /\ Validated
     /\ homeworks.t = "list"
     /\ Len(homeworks.v) > 0
     /\ \A i \in 1..Len(homeworks.v) : KnownRecord(homeworks.v[i])
     /\ "current_date" \in DOMAIN response.v
     /\ response.v.current_date.t = "int") =>
        /\ Len(sent) = Len(homeworks.v)
        /\ \A i \in 1..Len(sent) :
             /\ sent[i].line = 133
             /\ sent[i].text = parse_status(homeworks.v[i]).value
        /\ timestamp = response.v.current_date

\* C7 as stated: after a successful cycle whose response has no current_date
\* the cursor is the current wall-clock time.
C7_CursorIsWallClock ==
    (CycleSucceeded /\ "current_date" \notin DOMAIN response.v) =>
        timestamp = PyInt(now)

\* C7 amended: after a successful cycle whose response has no current_date
\* the cursor is the value it had before the cycle (the one the fetch was
\* given), not the wall-clock time.
C7_CursorKept ==
    (CycleSucceeded /\ "current_date" \notin DOMAIN response.v) =>
        timestamp = from_date

C7_Witness ==
    /\ CycleSucceeded
    /\ "current_date" \notin DOMAIN response.v
    /\ fetches >= 2
    /\ timestamp = from_date
    /\ timestamp /= PyInt(now)

\* C8: the cursor given to get_api_answer is a non-negative integer at every
\* fetch.
C8_CursorNonNegativeInt ==
    from_date /= Unbound => (from_date.t = "int" /\ from_date.v >= 0)

\* C9: a cycle in which fetch, validate, format or notify raised leaves the
\* cursor as it was before the cycle; the cursor changes only in the last
\* step of a cycle in which none of them raised.
C9_CursorFrame ==
    /\ [](CycleFailed => timestamp = from_date)
    /\ [][timestamp' /= timestamp =>
            \/ pc = "start"
            \/ /\ pc = "notify"
               /\ idx > Len(homeworks.v)
               /\ error = NoError
               /\ pc' = "sleep"]_vars

\* a cycle that notified one record, then raised, with a current_date in its
\* response that differs from the cursor
C9_Witness ==
    /\ pc = "sleep"
    /\ CycleFailed
    /\ Len(sent) >= 2
    /\ sent[1].line = 133
    /\ response.t = "dict"
    /\ "current_date" \in DOMAIN response.v
    /\ response.v.current_date /= from_date
    /\ timestamp = from_date

\* C10: check_response fails at the first violated check of: the response is
\* a mapping, it has a homeworks field, that field is a list; otherwise it
\* returns the homeworks list as received, also without a current_date, and
\* an empty list for {"homeworks": [], "current_date": 123}.
C10_CheckResponseOrder ==
    /\ Validated =>
         IF response.t /= "dict"
         THEN idx = 0 /\ error = Exc("TypeError", "Otvet API dolzhen byt slovaryom")
         ELSE IF "homeworks" \notin DOMAIN response.v
         THEN idx = 0 /\ error = Exc("KeyError", "V otvete API net klyucha \"homeworks\"")
         ELSE IF response.v.homeworks.t /= "list"
         THEN /\ idx = 0
              /\ error = Exc("TypeError",
                             "Po klyuchu \"homeworks\" dolzhno byt znachenie tipa list")
         ELSE idx >= 1 /\ homeworks = response.v.homeworks
    /\ LET r == check_response(ApiDict(PyList(<<>>), PyInt(123)))
       IN r.raised = NoError /\ r.value = PyList(<<>>)

\* a mapping whose homeworks value is no list was refused by the third check
C10_Witness ==
    /\ Validated
    /\ pc = "handler"
    /\ response.t = "dict"
    /\ "homeworks" \in DOMAIN response.v
    /\ response.v.homeworks.t = "str"
    /\ error.type = "TypeError"

\* the record of a one-record list, and whether the for loop has been at it
TheRecord == homeworks.v[1]
Parsed == homeworks.t = "list" /\ Len(homeworks.v) = 1 /\ (pc /= "notify" \/ idx > 1)
HasKey(h, key) == h.t = "dict" /\ key \in DOMAIN h.v
Notifications == {i \in 1..Len(sent) : sent[i].line = 133}

\* C11: for a record whose status is not exactly approved, reviewing or
\* rejected (the empty string and other spellings such as Approved included)
\* parse_status returns no message, so none is sent; when the record has its
\* name and its status the error is the unknown-status ValueError.
C11_UnknownStatusRejected ==
    (Parsed /\ ~KnownRecord(TheRecord)) =>
        /\ Notifications = {}
        /\ error /= NoError
        /\ parse_status(TheRecord).raised = error
        /\ (HasKey(TheRecord, "homework_name") /\ HasKey(TheRecord, "status")) =>
             error = Exc("ValueError",
                         "Neizvestnyy status raboty: " \o Format(TheRecord.v.status))

C11_Witness ==
    /\ Parsed
    /\ TheRecord = Hw(PyStr("proj1"), PyStr("Approved"))
    /\ pc = "handler"
    /\ error = Exc("ValueError", "Neizvestnyy status raboty: Approved")

\* the sentence the verdict table has for a status
VerdictSentence(status) ==
    CASE status = "approved" -> "Rabota proverena: revyueru vsyo ponravilos. Ura!"
      [] status = "reviewing" -> "Rabota vzyata na proverku revyuerom."
      [] status = "rejected" -> "Rabota proverena: u revyuera est zamechaniya."

\* C12: for a record with a name string and a status of the table the message
\* is the fixed prefix, the name in double quotes, a period, a space and the
\* table's sentence, whatever characters the name has; a record without the
\* name or without the status fails with a KeyError naming the missing field.
C12_MessageFormat ==
    Parsed =>
        /\ (KnownRecord(TheRecord) /\ TheRecord.v.homework_name.t = "str") =>
             /\ Len(sent) >= 1
             /\ sent[1].line = 133
             /\ sent[1].text = "Izmenilsya status proverki raboty \""
                               \o TheRecord.v.homework_name.v \o "\". "
                               \o VerdictSentence(TheRecord.v.status.v)
        /\ (TheRecord.t = "dict" /\ ~HasKey(TheRecord, "homework_name")) =>
             /\ Notifications = {}
             /\ error = Exc("KeyError", "V otvete API net klyucha \"homework_name\"")
        /\ (HasKey(TheRecord, "homework_name") /\ ~HasKey(TheRecord, "status")) =>
             /\ Notifications = {}
             /\ error = Exc("KeyError", "V otvete API net klyucha \"status\"")

C12_Witness ==
    /\ Parsed
    /\ TheRecord = Hw(PyStr("say \"hi\""), PyStr("rejected"))
    /\ Len(sent) = 1
    /\ sent[1].text = "Izmenilsya status proverki raboty \"say \"hi\"\". Rabota proverena: u revyuera est zamechaniya."


\* C13: every cycle, failed or not, issues one fetch and ends with one sleep
\* of 600 seconds: the clock inside the loop is the start time plus 600
\* seconds per finished cycle, the fetch counter moves by one and only at the
\* top of the loop, the clock moves by 600 and only in the sleep that leads
\* back to the top of the loop, and no step leaves the loop.
C13_OneFetchOneSleep ==
    /\ [](InLoop =>
            now = StartTime + 600 * (IF pc = "fetch" THEN fetches ELSE fetches - 1))
    /\ [][fetches' /= fetches =>
            /\ pc = "fetch"
            /\ fetches' = fetches + 1
            /\ pc' \in {"validate", "handler"}
            /\ now' = now]_vars
    /\ [][now' /= now =>
            /\ pc = "sleep"
            /\ now' = now + 600
            /\ pc' = "fetch"
            /\ fetches' = fetches]_vars
    /\ [][InLoop => InLoop']_vars

\* the third fetch is due 1200 seconds after the start, after two cycles of
\* which the second was a successful empty one
C13_Witness ==
    /\ pc = "fetch"
    /\ fetches = 2
    /\ now = StartTime + 1200
    /\ last_cycle = "ok"
    /\ new_status_found

\* check_response raised in the current cycle
CheckResponseRaised == Validated /\ idx = 0 /\ error /= NoError

\* parse_status raised in the current cycle, for the record at idx
ParseStatusRaised ==
    /\ Validated
    /\ homeworks.t = "list"
    /\ idx \in 1..Len(homeworks.v)
    /\ error /= NoError
    /\ ~KnownRecord(homeworks.v[idx])

ReportAttempts == {i \in 1..Len(sent) : sent[i].line = 144}

\* C14: a cycle in which check_response or parse_status raised has, at its
\* sleep, exactly one error log entry with the text of the error after the
\* failure prefix and exactly one failure report with the same text, sent
\* last, whatever the outcome of that report; the handler always goes on to
\* the sleep with that one attempt.
C14_ValidationErrorReported ==
    /\ []((pc = "sleep" /\ (CheckResponseRaised \/ ParseStatusRaised)) =>
            LET text == "Sboy v rabote programmy: " \o
                            (IF error.type = "KeyError" THEN "'" \o error.msg \o "'"
                             ELSE error.msg)
            IN /\ error.type \in {"TypeError", "KeyError", "ValueError"}
               /\ error.msg /= ""
               /\ Cardinality({j \in ErrorEntries(log) : log[j].text = text}) = 1
               /\ Cardinality(ReportAttempts) = 1
               /\ sent[Len(sent)].line = 144
               /\ sent[Len(sent)].text = text)
    /\ [][(pc = "handler" /\ (CheckResponseRaised \/ ParseStatusRaised)) =>
            /\ pc' = "sleep"
            /\ Len(sent') = Len(sent) + 1]_vars

\* the report of an unknown status failed on the network and the cycle went
\* on to its sleep
C14_Witness ==
    /\ pc = "sleep"
    /\ ParseStatusRaised
    /\ error.type = "ValueError"
    /\ sent[Len(sent)].line = 144
    /\ sent[Len(sent)].outcome.type = "ConnectionError"


\* the debug entries of the current cycle saying that nothing changed
NothingNewEntries ==
    {j \in 1..Len(log) : log[j] = LogEntry("debug", "Net novykh statusov dlya domashek.")}

\* the current cycle fetched and validated an empty list and did not raise
EmptyCycle == CycleSucceeded /\ Validated /\ homeworks = PyList(<<>>)

\* C15 as stated: every successful cycle with an empty list sends nothing and
\* writes the debug entry saying that nothing changed.
C15_EmptyCycleLogs ==
    EmptyCycle => (sent = <<>> /\ NothingNewEntries /= {})

\* C15: a successful cycle with an empty list sends nothing; it writes the
\* debug entry, once, when the flag new_status_found was not set before the
\* cycle, and nothing when it was set; the flag is set after the cycle.  The
\* first cycle after the start has the flag unset.
C15_EmptyCycleLogsUnlessFlagged ==
    /\ [](EmptyCycle =>
            /\ sent = <<>>
            /\ Cardinality(NothingNewEntries) <= 1
            /\ new_status_found
            /\ fetches = 1 => NothingNewEntries /= {})
    /\ [][(pc = "notify" /\ homeworks = PyList(<<>>)) =>
            /\ EmptyCycle'
            /\ NothingNewEntries' /= {} <=> ~new_status_found]_vars

\* the second of two successful empty cycles wrote no debug entry
C15_Witness ==
    /\ EmptyCycle
    /\ fetches = 2
    /\ last_cycle = "ok"
    /\ quiet.seen
    /\ NothingNewEntries = {}


\* the notification text for a record with a name and a status of the table
MessageFor(h) ==
    "Izmenilsya status proverki raboty \"" \o h.v.homework_name.v \o "\". "
        \o VerdictSentence(h.v.status.v)

\* a bot failure of the class that send_message catches
Swallowed(e) == e.type \in {"ApiException", "ApiTelegramException", "ApiHTTPException"}

\* the notifications of the current cycle that failed with a swallowed error
SwallowedNotifications == {i \in Notifications : Swallowed(sent[i].outcome)}

\* C18: a notification whose send fails with an error that send_message
\* swallows does not end the for loop: the step raises nothing and moves to
\* the next record.  A cycle with such a failure, whose records all have a
\* name and a known status and in which no send raised past send_message,
\* ends successful: one notification attempt per record in the order of the
\* list, no failure report, and the cursor is the current_date of the
\* response when it has one.
C18_SwallowedSendKeepsCycle ==
    /\ [][(pc = "notify" /\ Len(sent') = Len(sent) + 1
                /\ Swallowed(sent'[Len(sent')].outcome)) =>
            /\ sent'[Len(sent')].line = 133
            /\ idx' = idx + 1
            /\ pc' = "notify"
            /\ error' = NoError
            /\ ErrorEntries(log') /= {}]_vars
    /\ []((/\ pc = "sleep"
           /\ Validated
           /\ homeworks.t = "list"
           /\ SwallowedNotifications /= {}
           /\ \A i \in 1..Len(homeworks.v) : KnownRecord(homeworks.v[i])
           /\ \A i \in Notifications :
                  sent[i].outcome = NoError \/ Swallowed(sent[i].outcome)) =>
            /\ error = NoError
            /\ ReportAttempts = {}
            /\ Len(sent) = Len(homeworks.v)
            /\ \A i \in 1..Len(sent) :
                  sent[i].line = 133 /\ sent[i].text = MessageFor(homeworks.v[i])
            /\ "current_date" \in DOMAIN response.v =>
                  timestamp = response.v.current_date)

\* the send for the first of two records was rejected by Telegram, the second
\* record was notified and the cursor moved to the current_date
C18_Witness ==
    /\ CycleSucceeded
    /\ Validated
    /\ Len(homeworks.v) = 2
    /\ Len(sent) = 2
    /\ Swallowed(sent[1].outcome)
    /\ sent[2].outcome = NoError
    /\ sent[2].line = 133
    /\ timestamp = response.v.current_date
    /\ timestamp /= from_date


\* C19: a successful empty cycle writes the debug entry exactly when no
\* successful empty cycle came before it since the start or since the last
\* cycle that notified all records of a non-empty list; failed cycles in
\* between change nothing, so the successful empty cycles since then have
\* written the entry exactly once between them.
C19_DebugLogOncePerQuietRun ==
    /\ EmptyCycle => (NothingNewEntries /= {} <=> ~quiet.seen)
    /\ EmptyCycle => quiet.logs + Cardinality(NothingNewEntries) = 1
    /\ quiet.logs = (IF quiet.seen THEN 1 ELSE 0)
    /\ CycleFailed => (new_status_found <=> quiet.seen)

\* an empty cycle, a failed cycle, and a second empty cycle that wrote no
\* debug entry
C19_Witness ==
    /\ EmptyCycle
    /\ fetches = 3
    /\ last_cycle = "failed"
    /\ quiet.seen
    /\ NothingNewEntries = {}


\* main is left, or is being left, by an exception
Leaving == pc \in {"unwinding", "stopped"}

\* C16: a KeyboardInterrupt is never in the hands of the failure handler or
\* of the loop: once raised, main is being left.  From then on there is no
\* fetch, no notification, no failure report and no log entry, and the loop
\* is not entered again.  Raised during the sleep it stops main at once.
C16_InterruptStops ==
    /\ [](error.type = "KeyboardInterrupt" => Leaving)
    /\ [][Leaving =>
            /\ Leaving'
            /\ fetches' = fetches
            /\ sent' = sent
            /\ log' = log
            /\ timestamp' = timestamp]_vars
    /\ [][(pc = "sleep" /\ error'.type = "KeyboardInterrupt") =>
            /\ pc' = "stopped"
            /\ now' = now
            /\ fetches' = fetches
            /\ sent' = sent]_vars

\* the interrupt came in the for loop after the first of two notifications:
\* the second record was not notified, nothing was reported, the sleep of the
\* finally clause ran and main was left
C16_Witness ==
    /\ pc = "stopped"
    /\ error.type = "KeyboardInterrupt"
    /\ fetches = 1
    /\ homeworks.t = "list"
    /\ Len(homeworks.v) = 2
    /\ idx = 2
    /\ Len(sent) = 1
    /\ now = StartTime + 600


\* the for loop of the current cycle broke off at the record at idx
LoopBroke ==
    /\ pc \in {"handler", "sleep"}
    /\ Validated
    /\ homeworks.t = "list"
    /\ error /= NoError

\* sent[i] is the notification for the i-th record of the list
NotificationFor(i) ==
    /\ i <= Len(sent)
    /\ sent[i].line = 133
    /\ KnownRecord(homeworks.v[i])
    /\ sent[i].text = MessageFor(homeworks.v[i])

\* C17: when the for loop breaks off at position k, the records before k have
\* one notification attempt each, in order, that did not raise, no record
\* after k has one, and the cursor is the one the cycle fetched with; the
\* record at k has no attempt when parse_status raised for it and the raising
\* attempt when send_message raised.  The next cycle then fetches with the
\* same cursor, and when the API gives the same list the for loop starts at
\* its first record again: every record before k that this loop gets to is
\* notified again, and a record that parse_status refused stops it again.
C17_PrefixNotifiedAndRepeated ==
    /\ LoopBroke =>
         /\ idx \in 1..Len(homeworks.v)
         /\ \A i \in 1..(idx - 1) :
              /\ NotificationFor(i)
              /\ sent[i].outcome = NoError \/ Swallowed(sent[i].outcome)
         /\ Notifications = 1..(IF KnownRecord(homeworks.v[idx]) THEN idx ELSE idx - 1)
         /\ KnownRecord(homeworks.v[idx]) =>
              /\ NotificationFor(idx)
              /\ sent[idx].outcome = error
              /\ ~Swallowed(error)
         /\ timestamp = from_date
    /\ (prev.k > 0 /\ pc = "sleep" /\ Validated) =>
         /\ from_date = prev.from
         /\ homeworks = prev.net.body.v.homeworks
         /\ \A i \in 1..(prev.k - 1) : i < idx => NotificationFor(i)
         /\ ~KnownRecord(homeworks.v[prev.k]) => (LoopBroke /\ idx <= prev.k)

\* two cycles got the same list with an unknown status at position 2: the
\* first record was notified in the first cycle and again in the second
C17_Witness ==
    /\ pc = "sleep"
    /\ fetches = 2
    /\ prev.k = 2
    /\ LoopBroke
    /\ idx = 2
    /\ ~KnownRecord(homeworks.v[2])
    /\ Len(sent) = 2
    /\ sent[1].outcome = NoError
    /\ sent[1].line = 133
    /\ sent[2].line = 144

====
